---- MODULE Spec2Model ----
(***************************************************************************)
(* NUMA-aware CPU hint computation of the dynamic CPU policy               *)
(* (pkg/agent/qrm-plugins/cpu/dynamicpolicy/policy_hint_handlers.go) and   *)
(* the Reserve/Unreserve hooks of the numainterpodaffinity scheduler       *)
(* plugin (pkg/scheduler/plugins/numainterpodaffinity/reserve.go).         *)
(*                                                                         *)
(* Three specifications share the variables:                               *)
(*   HintSpec     calculateHints applied to bounded inputs                 *)
(*   Spec         the dedicated + NUMA-binding hint handler, step by step, *)
(*                with the per-NUMA fan-out of the affinity counters       *)
(*   ReserveSpec  Reserve / Unreserve on the scheduler's placement cache   *)
(***************************************************************************)
EXTENDS Integers, Sequences, FiniteSets, TLC

VARIABLES
    topology,       \* p.machineInfo.CPUTopology (immutable)
    machineState,   \* state.NUMANodeMap: NUMA id -> node state or Nil
    reservedCPUs,   \* p.reservedCPUs
    req,            \* the pluginapi.ResourceRequest being served
    pc,             \* position of the caller thread
    result,         \* HintSpec: what calculateHints returned, [err, hints]
    podEntries,     \* p.state's pod entries: the allocation entries
    localState,     \* the handler's local machineState (lines 111, 127)
    hints,          \* the handler's local hints, Nil until obtained
    pfState,        \* the preFilterState of line 159, Nil when none
    resp,           \* what the handler returned: [kind, hints, err]
    fanPhase,       \* FanOutSpec: the counter being computed
    mainPc,         \* the caller inside it: "spawn", "wait", "merge"
    loopI,          \* the caller's loop variable i
    wg,             \* the sync.WaitGroup counter
    unit,           \* per NUMA index, the goroutine started for it
    topologyMaps,   \* the result slots, Nil until written
    writers,        \* history: per slot, the units that wrote it
    cache,          \* ReserveSpec: the scheduler cache's <<node, pod>> records
    prevCache,      \* history: the cache before the last operation
    lastOp          \* history: the last operation, [op, pod, node, status]

hintVars == <<result>>
handlerVars == <<podEntries, localState, hints, pfState, resp>>
fanVars == <<fanPhase, mainPc, loopI, wg, unit, topologyMaps, writers>>
reserveVars == <<cache, prevCache, lastOp>>
vars == <<topology, machineState, reservedCPUs, req, pc, hintVars, handlerVars, fanVars,
          reserveVars>>

----------------------------------------------------------------------------
(* Bounds of the model *)

MaxNUMA == 4            \* NUMA nodes of a machine: 1..MaxNUMA
MaxCPUsPerNUMA == 2     \* CPUs of a NUMA node: 1..MaxCPUsPerNUMA
MaxReq == 5             \* requested CPU count: 1..MaxReq
HandlerMaxNUMA == 2     \* NUMA nodes of the machines the handler runs on
FanMaxNUMA == 2         \* NUMA nodes of the machines of the fan-out
MaxNodes == 2           \* cluster nodes the scheduler chooses from

\* Go's nil (a missing node state, a call that has not returned)
Nil == [nil |-> TRUE]

----------------------------------------------------------------------------
(* Topology: machine.CPUTopology / KatalystMachineInfo *)

\* A topology is [numNUMA, numSockets, cpusPerNUMA, split]: NUMA node i owns
\* the CPUs i*c .. i*c+c-1 and sits on socket (i * numSockets) \div numNUMA.
\* split holds the NUMA nodes whose CPUs report more than one socket id (an
\* inconsistent CPUDetails table).
Topology(n, s, c, split) ==
    [numNUMA |-> n, numSockets |-> s, cpusPerNUMA |-> c, split |-> split]

NUMANodes(t) == 0..(t.numNUMA - 1)

CPUsInNUMA(t, i) == (i * t.cpusPerNUMA)..(i * t.cpusPerNUMA + t.cpusPerNUMA - 1)

SocketOf(t, i) == (i * t.numSockets) \div t.numNUMA

\* CPUDetails.NUMANodesInSockets(socket)
NUMANodesInSockets(t, socket) == { n \in NUMANodes(t) : SocketOf(t, n) = socket }

\* util.GetNUMANodesCountToFitCPUReq: ceil(req / CPUs per NUMA), an error when
\* that is zero or more than the machine has.
GetNUMANodesCountToFitCPUReq(reqInt, t) ==
    LET needed == (reqInt + t.cpusPerNUMA - 1) \div t.cpusPerNUMA
    IN  [err |-> needed = 0 \/ needed > t.numNUMA, count |-> needed]

\* machineInfo.NUMAsPerSocket: an error when the sockets do not divide the nodes.
NUMAsPerSocket(t) ==
    [err |-> t.numNUMA % t.numSockets # 0, count |-> t.numNUMA \div t.numSockets]

\* machine.CheckNUMACrossSockets: whether the nodes span more than one socket;
\* an error when a node's socket cannot be resolved to exactly one id.
CheckNUMACrossSockets(maskBits, t) ==
    LET nodes == { maskBits[j] : j \in 1..Len(maskBits) }
    IN  [err   |-> t.split \cap nodes # {},
         cross |-> Cardinality({ SocketOf(t, n) : n \in nodes }) > 1]

\* qosutil.AnnotationsIndicateNUMABinding / AnnotationsIndicateNUMAExclusive
AnnotationsIndicateNUMABinding(ann) == ann.numaBinding
AnnotationsIndicateNUMAExclusive(ann) == ann.numaBinding /\ ann.numaExclusive

\* NUMANodeState.GetAvailableCPUSet: total minus allocated minus reserved.
\* A node state is [cpus, allocated, podEntries]: the node's CPUs, its
\* AllocatedCPUSet and the allocation entries resident on it.
GetAvailableCPUSet(ns, reserved) == (ns.cpus \ ns.allocated) \ reserved

----------------------------------------------------------------------------
(* bitmask.IterateBitMasks: every non-empty subset of bits, by size, each  *)
(* as the ascending sequence of its bits                                   *)

RECURSIVE Iterate(_, _, _), IterateFrom(_, _, _, _), IterateSizes(_, _)

Iterate(bits, accum, size) ==
    IF Len(accum) = size THEN << accum >>
    ELSE IterateFrom(bits, 1, accum, size)

IterateFrom(bits, i, accum, size) ==
    IF i > Len(bits) THEN << >>
    ELSE Iterate(SubSeq(bits, i + 1, Len(bits)), Append(accum, bits[i]), size)
         \o IterateFrom(bits, i + 1, accum, size)

IterateSizes(bits, size) ==
    IF size > Len(bits) THEN << >>
    ELSE Iterate(bits, << >>, size) \o IterateSizes(bits, size + 1)

IterateBitMasks(bits) == IterateSizes(bits, 1)

\* sort.Ints over the keys of the machine state
RECURSIVE SortedSeq(_)
SortedSeq(S) ==
    IF S = {} THEN << >>
    ELSE LET m == CHOOSE x \in S : \A y \in S : x <= y
         IN  << m >> \o SortedSeq(S \ {m})

----------------------------------------------------------------------------
(* calculateHints *)

\* line 216: the mask has fewer nodes than the request needs
MaskTooSmall(maskCount, minNUMAsCountNeeded) == maskCount < minNUMAsCountNeeded

\* lines 218-220: NUMA binding without exclusivity takes one node only
NonExclusiveMultiNUMA(ann, maskCount) ==
    /\ AnnotationsIndicateNUMABinding(ann)
    /\ ~AnnotationsIndicateNUMAExclusive(ann)
    /\ maskCount > 1

\* line 234: an exclusive request meets a node that already has allocations
ExclusiveConflict_Off(ann, ns) == FALSE
ExclusiveConflict(ann, ns) ==
    AnnotationsIndicateNUMAExclusive(ann) /\ Cardinality(ns.allocated) > 0

\* line 243: the available CPUs of the mask do not cover the request
CapacityShort_OffByOne(avail, reqInt) == Cardinality(avail) < reqInt - 1
CapacityShort(avail, reqInt) == Cardinality(avail) < reqInt

\* line 253: the mask would fit one socket but spans several
CrossSocketSkip_Strict(numaCountNeeded, numaPerSocket, crossSockets) ==
    numaCountNeeded < numaPerSocket /\ crossSockets
CrossSocketSkip(numaCountNeeded, numaPerSocket, crossSockets) ==
    numaCountNeeded <= numaPerSocket /\ crossSockets

\* line 261: Preferred of an emitted hint
Preferred_AtLeast(maskBits, minNUMAsCountNeeded) == Len(maskBits) >= minNUMAsCountNeeded
Preferred(maskBits, minNUMAsCountNeeded) == Len(maskBits) = minNUMAsCountNeeded

\* lines 229-241: the loop over the nodes of the mask.  stop names the reason
\* the callback returned inside the loop, "" when the loop ran to its end.
RECURSIVE NodeLoop(_, _, _, _, _, _)
NodeLoop(maskBits, j, avail, ms, ann, reserved) ==
    IF j > Len(maskBits) THEN [stop |-> "", avail |-> avail]
    ELSE IF ms[maskBits[j]] = Nil THEN [stop |-> "nilState", avail |-> avail]
    ELSE IF ExclusiveConflict(ann, ms[maskBits[j]])
         THEN [stop |-> "exclusive", avail |-> avail]
    ELSE NodeLoop(maskBits, j + 1,
                  avail \cup GetAvailableCPUSet(ms[maskBits[j]], reserved),
                  ms, ann, reserved)

\* lines 214-263: what the callback does with one mask: "emit", or the reason
\* it returns without appending a hint.
MaskOutcome(maskBits, reqInt, ms, ann, t, reserved, minNeeded, numaPerSocket) ==
    IF MaskTooSmall(Len(maskBits), minNeeded) THEN "tooSmall"
    ELSE IF NonExclusiveMultiNUMA(ann, Len(maskBits)) THEN "nonExclusiveMulti"
    ELSE LET loop == NodeLoop(maskBits, 1, {}, ms, ann, reserved)
             cross == CheckNUMACrossSockets(maskBits, t)
         IN  IF loop.stop # "" THEN loop.stop
             ELSE IF CapacityShort(loop.avail, reqInt) THEN "capacity"
             ELSE IF cross.err THEN "crossErr"
             ELSE IF CrossSocketSkip(Len(maskBits), numaPerSocket, cross.cross)
                  THEN "crossSockets"
             ELSE "emit"

HintsError == [err |-> TRUE, hints |-> << >>]

\* lines 182-266
CalculateHints(reqInt, ms, ann, t, reserved) ==
    LET numaNodes == SortedSeq(DOMAIN ms)
        fit == GetNUMANodesCountToFitCPUReq(reqInt, t)
        nps == NUMAsPerSocket(t)
        masks == IterateBitMasks(numaNodes)
        emitted == SelectSeq(masks, LAMBDA m :
                       MaskOutcome(m, reqInt, ms, ann, t, reserved,
                                   fit.count, nps.count) = "emit")
    IN  IF fit.err THEN HintsError
        ELSE IF AnnotationsIndicateNUMABinding(ann)
                /\ ~AnnotationsIndicateNUMAExclusive(ann) /\ fit.count > 1
             THEN HintsError
        ELSE IF nps.err THEN HintsError
        ELSE [err |-> FALSE,
              hints |-> [k \in 1..Len(emitted) |->
                            [nodes |-> emitted[k],
                             preferred |-> Preferred(emitted[k], fit.count)]]]

----------------------------------------------------------------------------
(* Inter-pod affinity at NUMA level *)

\* Labels are sets of <<key, value>> pairs.  A pod's labels hold one value per
\* key; reading a missing key of a Go map gives "".
Lookup(labels, key) ==
    IF \E kv \in labels : kv[1] = key
    THEN (CHOOSE kv \in labels : kv[1] = key)[2]
    ELSE ""

\* apiconsts.Selector: a zone ("numa" or "socket") and MatchLabels
Selector(zone, matchLabels) == [zone |-> zone, matchLabels |-> matchLabels]

\* util.TopologyAffinityCount: NUMA id -> count, a missing key reading 0
ZeroCount(t) == [n \in NUMANodes(t) |-> 0]

\* TopologyAffinityCount.Append: the key-wise sum
AppendCount(a, b) == [n \in DOMAIN a |-> a[n] + b[n]]

\* lines 315-323: where one match is counted: on every NUMA node of the socket
\* for a socket-zoned selector, else on the NUMA node itself
CountedOn_NodeOnly(t, seletor, socket, numa) == {numa}
CountedOn(t, seletor, socket, numa) ==
    IF seletor.zone = "socket" THEN NUMANodesInSockets(t, socket) ELSE {numa}

\* lines 309-328: matchNUMAAffinity, the selectors of a NUMA node against the
\* labels of the new pod
RECURSIVE matchNUMAAffinityFrom(_, _, _, _, _, _)
matchNUMAAffinityFrom(t, Seletors, k, labels, socket, numa) ==
    IF k > Len(Seletors) THEN ZeroCount(t)
    ELSE LET seletor == Seletors[k]
             hits == Cardinality({ kv \in seletor.matchLabels :
                                       Lookup(labels, kv[1]) = kv[2] })
             rest == matchNUMAAffinityFrom(t, Seletors, k + 1, labels, socket, numa)
         IN  [n \in NUMANodes(t) |->
                 rest[n] + (IF n \in CountedOn(t, seletor, socket, numa) THEN hits ELSE 0)]

matchNUMAAffinity(t, Seletors, labels, socket, numa) ==
    matchNUMAAffinityFrom(t, Seletors, 1, labels, socket, numa)

\* lines 332-354: matchPodAffinity, the selectors of the new pod against the
\* merged labels of a NUMA node (several values per key)
RECURSIVE matchPodAffinityFrom(_, _, _, _, _, _)
matchPodAffinityFrom(t, Seletors, k, labels, socket, numa) ==
    IF k > Len(Seletors) THEN ZeroCount(t)
    ELSE LET seletor == Seletors[k]
             hits == Cardinality({ kv \in seletor.matchLabels : kv \in labels })
             rest == matchPodAffinityFrom(t, Seletors, k + 1, labels, socket, numa)
         IN  [n \in NUMANodes(t) |->
                 rest[n] + (IF n \in CountedOn(t, seletor, socket, numa) THEN hits ELSE 0)]

matchPodAffinity(t, Seletors, labels, socket, numa) ==
    matchPodAffinityFrom(t, Seletors, 1, labels, socket, numa)

\* An allocation entry is [pod, container, numa, cpuset, dedicated, labels,
\* antiAnno, anti]: antiAnno is "none" (no anti-affinity annotation), "ok" (it
\* parses to the selectors anti) or "bad" (util.UnmarshalAffinity fails on it).

\* lines 283-299: of every pod on the node the loop reads one container and
\* breaks; the containers of a pod carry the pod's labels and annotations
FirstContainers(entries) ==
    { CHOOSE e \in entries : e.pod = p : p \in { x.pod : x \in entries } }

\* the entries of a node in the order the loop of line 284 meets them; the
\* counts computed from them do not depend on that order
RECURSIVE EntrySeq(_)
EntrySeq(S) ==
    IF S = {} THEN << >>
    ELSE LET e == CHOOSE x \in S : TRUE IN << e >> \o EntrySeq(S \ {e})

\* (a variant that reads the first entry of the node only)
ConcatAnti_FirstOnly(entries, k) ==
    IF Len(entries) = 0 \/ entries[1].antiAnno # "ok" THEN << >> ELSE entries[1].anti

RECURSIVE ConcatAnti(_, _)
ConcatAnti(entries, k) ==
    IF k > Len(entries) THEN << >>
    ELSE (IF entries[k].antiAnno = "ok" THEN entries[k].anti ELSE << >>)
         \o ConcatAnti(entries, k + 1)

\* util.MergeNumaInfoMap over the entries of a node: key -> distinct values
MergedLabels(entries) == UNION { e.labels : e \in entries }

\* lines 269-305: getNumaNodesAffinityInfo
getNumaNodesAffinityInfo(t, numaResourceMap) ==
    [err  |-> \E i \in NUMANodes(t) :
                  \E e \in FirstContainers(numaResourceMap[i].podEntries) :
                      e.antiAnno = "bad",
     list |-> [k \in 1..t.numNUMA |->
                 [numaID |-> k - 1,
                  socketID |-> SocketOf(t, k - 1),
                  labels |-> MergedLabels(FirstContainers(numaResourceMap[k - 1].podEntries)),
                  AntiAffinityRequiredSelectors |->
                      ConcatAnti(EntrySeq(FirstContainers(numaResourceMap[k - 1].podEntries)),
                                 1)]]]

\* lines 506-520: requiredPodAffinityInfo.  A request's affinity descriptor is
\* [parses, affinity, antiAffinity], affinity and antiAffinity being Nil or the
\* record [Required] of the required selectors.
requiredPodAffinityInfo(r) ==
    [labels |-> r.labels,
     AffinityRequiredSelectors |->
         IF r.affinity # Nil THEN r.affinity.Required ELSE << >>,
     AntiAffinityRequiredSelectors |->
         IF r.antiAffinity # Nil THEN r.antiAffinity.Required ELSE << >>]

\* the slot a unit of work of getExistingAntiAffinityCounts computes (line 368)
ExistingAntiSlot(t, st, numaID) ==
    LET numaAffinity == st.numaAffinityInfoList[numaID + 1]
    IN  matchNUMAAffinity(t, numaAffinity.AntiAffinityRequiredSelectors,
                          st.podAffinityInfo.labels,
                          numaAffinity.socketID, numaAffinity.numaID)

\* the slot a unit of work of getAntiAffinityCounts computes (line 393)
AntiSlot(t, st, numaID) ==
    LET numaAffinity == st.numaAffinityInfoList[numaID + 1]
    IN  matchPodAffinity(t, st.podAffinityInfo.AntiAffinityRequiredSelectors,
                         numaAffinity.labels,
                         numaAffinity.socketID, numaAffinity.numaID)

\* the slot a unit of work of getAffinityCounts computes (line 418)
AffinitySlot(t, st, numaID) ==
    LET numaAffinity == st.numaAffinityInfoList[numaID + 1]
    IN  matchPodAffinity(t, st.podAffinityInfo.AffinityRequiredSelectors,
                         numaAffinity.labels,
                         numaAffinity.socketID, numaAffinity.numaID)

\* the slots appended in index order (lines 375-377, 400-402, 425-427)
RECURSIVE AppendSlots(_, _, _)
AppendSlots(acc, slots, i) ==
    IF i > Len(slots) THEN acc
    ELSE AppendSlots(AppendCount(acc, slots[i]), slots, i + 1)

\* lines 358-379, 383-404, 408-429 as the caller sees them: every slot
\* computed, then appended
getExistingAntiAffinityCounts(t, st) ==
    AppendSlots(st.existingAntiAffinityCounts,
                [k \in 1..Len(st.numaAffinityInfoList) |-> ExistingAntiSlot(t, st, k - 1)], 1)
getAntiAffinityCounts(t, st) ==
    AppendSlots(st.antiAffinityCounts,
                [k \in 1..Len(st.numaAffinityInfoList) |-> AntiSlot(t, st, k - 1)], 1)
getAffinityCounts(t, st) ==
    AppendSlots(st.affinityCounts,
                [k \in 1..Len(st.numaAffinityInfoList) |-> AffinitySlot(t, st, k - 1)], 1)

\* lines 454-460: the preFilterState before the counts are computed
NewPreFilterState(t, r, numaAffinityInfoList) ==
    [podAffinityInfo |-> requiredPodAffinityInfo(r),
     numaAffinityInfoList |-> numaAffinityInfoList,
     existingAntiAffinityCounts |-> ZeroCount(t),
     antiAffinityCounts |-> ZeroCount(t),
     affinityCounts |-> ZeroCount(t)]

\* lines 438-444: the exclusive short-circuit of prePodAffinityFilter
ExclusiveShortCircuit_NoCheck(r) == [state |-> Nil, err |-> FALSE]
ExclusiveShortCircuit(r) == [state |-> Nil, err |-> r.affinity # Nil]

\* lines 431-466: prePodAffinityFilter, [state, err]
prePodAffinityFilter(t, numaResourceMap, r) ==
    LET info == getNumaNodesAffinityInfo(t, numaResourceMap)
        s0 == NewPreFilterState(t, r, info.list)
        s1 == [s0 EXCEPT !.existingAntiAffinityCounts = getExistingAntiAffinityCounts(t, s0)]
        s2 == [s1 EXCEPT !.antiAffinityCounts = getAntiAffinityCounts(t, s1)]
        s3 == [s2 EXCEPT !.affinityCounts = getAffinityCounts(t, s2)]
    IN  IF ~r.parses THEN [state |-> Nil, err |-> TRUE]
        ELSE IF r.ann.numaExclusive THEN ExclusiveShortCircuit(r)
        ELSE IF info.err THEN [state |-> Nil, err |-> TRUE]
        ELSE [state |-> s3, err |-> FALSE]

\* lines 469-484: hintPodAffinityFilter
hintPodAffinityFilter_AnyNode(st, hint) ==
    \E j \in 1..Len(hint.nodes) :
        LET numa == hint.nodes[j]
        IN  ~ \/ st.existingAntiAffinityCounts[numa] > 0
              \/ st.antiAffinityCounts[numa] > 0
              \/ /\ Len(st.podAffinityInfo.AffinityRequiredSelectors) > 0
                 /\ st.affinityCounts[numa] <= 0
hintPodAffinityFilter(st, hint) ==
    \A j \in 1..Len(hint.nodes) :
        LET numa == hint.nodes[j]
        IN  ~ \/ st.existingAntiAffinityCounts[numa] > 0
              \/ st.antiAffinityCounts[numa] > 0
              \/ /\ Len(st.podAffinityInfo.AffinityRequiredSelectors) > 0
                 /\ st.affinityCounts[numa] <= 0

\* lines 487-504: podAffinityFilter
podAffinityFilter(st, hintList) ==
    SelectSeq(hintList, LAMBDA hint : hintPodAffinityFilter(st, hint))

----------------------------------------------------------------------------
(* HintSpec: calculateHints on bounded inputs *)

Annotations == { a \in [numaBinding : BOOLEAN, numaExclusive : BOOLEAN] :
                     a.numaExclusive => a.numaBinding }

\* the handler's variables where no handler runs
HandlerIdle ==
    /\ podEntries = << >>
    /\ localState = Nil
    /\ hints = Nil
    /\ pfState = Nil
    /\ resp = Nil

\* the scheduler cache where no scheduler runs
ReserveIdle ==
    /\ cache = {}
    /\ prevCache = {}
    /\ lastOp = Nil

\* the fan-out's variables where no fan-out runs
FanIdle ==
    /\ fanPhase = "none"
    /\ mainPc = "none"
    /\ loopI = 0
    /\ wg = 0
    /\ unit = << >>
    /\ topologyMaps = << >>
    /\ writers = << >>

\* a node's state: its CPUs, of which the first k are allocated
NodeState(t, i, k) ==
    [cpus |-> CPUsInNUMA(t, i),
     allocated |-> (i * t.cpusPerNUMA)..(i * t.cpusPerNUMA + k - 1),
     podEntries |-> {}]

\* allocation levels of a node: nothing, one CPU, everything
AllocLevels(c) == {0, 1, c}

\* socket counts: one socket, two, or one per NUMA node
SocketCounts(n) == {1, 2, n} \cap 1..n

\* what is wrong with the snapshot or the topology, if anything: the state of
\* the first or of the last node is nil, or the last node is split over sockets
Defects == {"none", "nilFirst", "nilLast", "split"}

HintInit ==
    /\ \E n \in 1..MaxNUMA, c \in {MaxCPUsPerNUMA - 1, MaxCPUsPerNUMA} \ {0}, d \in Defects :
       \E s \in SocketCounts(n), alloc \in [0..(n - 1) -> AllocLevels(c)] :
          /\ topology = Topology(n, s, c, IF d = "split" THEN {n - 1} ELSE {})
          /\ machineState =
                [i \in 0..(n - 1) |->
                    IF (d = "nilFirst" /\ i = 0) \/ (d = "nilLast" /\ i = n - 1)
                    THEN Nil
                    ELSE NodeState(Topology(n, s, c, {}), i, alloc[i])]
    /\ reservedCPUs \in {{}, {0}}
    /\ req \in [reqInt : 1..MaxReq, ann : Annotations]
    /\ pc = "start"
    /\ result = Nil
    /\ HandlerIdle
    /\ FanIdle
    /\ ReserveIdle

CallCalculateHints ==
    /\ pc = "start"
    /\ result' = CalculateHints(req.reqInt, machineState, req.ann, topology, reservedCPUs)
    /\ pc' = "returned"
    /\ UNCHANGED <<topology, machineState, reservedCPUs, req, handlerVars, fanVars,
                   reserveVars>>

HintNext == CallCalculateHints

HintSpec == HintInit /\ [][HintNext]_vars

----------------------------------------------------------------------------
(* The state the handler reads: pod entries and the machine state made of  *)
(* them                                                                    *)

Entry(pod, container, numa, cpuset, dedicated, labels, antiAnno, anti) ==
    [pod |-> pod, container |-> container, numa |-> numa, cpuset |-> cpuset,
     dedicated |-> dedicated, labels |-> labels, antiAnno |-> antiAnno, anti |-> anti]

\* state.PodEntries: pod UID -> container name -> allocation entry.  The
\* mapping made of a set of entries, and the entries of a mapping.
PodEntriesOf(entries) ==
    [p \in { e.pod : e \in entries } |->
        [c \in { e.container : e \in { x \in entries : x.pod = p } } |->
            CHOOSE e \in entries : e.pod = p /\ e.container = c]]
AllEntries(pe) == UNION { { pe[p][c] : c \in DOMAIN pe[p] } : p \in DOMAIN pe }

\* generateMachineStateFromPodEntries: per NUMA node its CPUs, the CPUs
\* allocated to dedicated NUMA-binding entries, and the entries resident on it
GenerateMachineState(t, entries) ==
    [i \in NUMANodes(t) |->
        [cpus |-> CPUsInNUMA(t, i),
         allocated |-> UNION { e.cpuset : e \in { x \in entries : x.numa = i /\ x.dedicated } },
         podEntries |-> { e \in entries : e.numa = i }]]

\* NUMANodeMap.GetFilteredNUMASet(state.CheckNUMABinding): the NUMA nodes that
\* hold no NUMA-binding entry
GetFilteredNUMASet(ms) ==
    { i \in DOMAIN ms : ~ \E e \in ms[i].podEntries : e.dedicated }

\* p.state.GetAllocationInfo(req.PodUid, req.ContainerName)
GetAllocationInfo(pe, PodUid, ContainerName) ==
    IF PodUid \in DOMAIN pe /\ ContainerName \in DOMAIN pe[PodUid]
    THEN pe[PodUid][ContainerName]
    ELSE Nil

\* A hint list (pluginapi.ListOfTopologyHints) is Nil or [Hints], the
\* sequence of its hints [nodes, preferred].

\* cpuutil.RegenerateHints: the NUMA node of the allocation as one preferred
\* hint, Nil when the allocation is smaller than the request
RegenerateHints(allocationInfo, reqInt) ==
    IF Cardinality(allocationInfo.cpuset) < reqInt THEN Nil
    ELSE [Hints |-> << [nodes |-> << allocationInfo.numa >>, preferred |-> TRUE] >>]

\* util.PackResourceHintsResponse and the three shapes of a return
RespNil == [kind |-> "nil", hints |-> << >>, err |-> TRUE]
RespNoPreference(err) == [kind |-> "noPreference", hints |-> << >>, err |-> err]
RespHints(hintList) == [kind |-> "hints", hints |-> hintList, err |-> FALSE]

----------------------------------------------------------------------------
(* dedicatedCoresWithNUMABindingHintHandler, lines 95-172 *)

\* lines 99-111: sidecar, the requested quantity, the machine state
HandlerEntry ==
    /\ pc = "start"
    /\ IF req.containerType = "SIDECAR"
       THEN resp' = RespNoPreference(FALSE) /\ pc' = "done" /\ UNCHANGED localState
       ELSE IF ~req.quantityOK
       THEN resp' = RespNil /\ pc' = "done" /\ UNCHANGED localState
       ELSE localState' = machineState /\ pc' = "regenerate" /\ UNCHANGED resp
    /\ UNCHANGED <<topology, machineState, reservedCPUs, req, hintVars, fanVars, reserveVars,
                   podEntries, hints, pfState>>

\* lines 114-134: hints regenerated from the container's allocation; a failed
\* regeneration drops the container's record and recomputes the machine state
\* line 119: delete(podEntries[req.PodUid], req.ContainerName)
DeleteContainer(pe, PodUid, ContainerName) ==
    [pe EXCEPT ![PodUid] = [c \in DOMAIN pe[PodUid] \ {ContainerName} |-> pe[PodUid][c]]]

\* lines 120-122: the pod's entry goes when no container of it is left
\* (a variant that keeps the empty entry)
DeleteEmptyPod_Keep(pe, PodUid) == pe
DeleteEmptyPod(pe, PodUid) ==
    IF DOMAIN pe[PodUid] = {} THEN [p \in DOMAIN pe \ {PodUid} |-> pe[p]] ELSE pe

Regenerate ==
    /\ pc = "regenerate"
    /\ LET allocationInfo == GetAllocationInfo(podEntries, req.PodUid, req.ContainerName)
       IN  IF allocationInfo = Nil
           THEN pc' = "extra" /\ UNCHANGED <<hints, podEntries, localState, resp>>
           ELSE IF RegenerateHints(allocationInfo, req.reqInt) # Nil
           THEN /\ hints' = RegenerateHints(allocationInfo, req.reqInt)
                /\ pc' = "prefilter"
                /\ UNCHANGED <<podEntries, localState, resp>>
           ELSE /\ podEntries' = DeleteEmptyPod(
                                    DeleteContainer(podEntries, req.PodUid, req.ContainerName),
                                    req.PodUid)
                /\ \E generated \in BOOLEAN :
                      IF generated
                      THEN /\ localState' = GenerateMachineState(topology, AllEntries(podEntries'))
                           /\ pc' = "extra"
                           /\ UNCHANGED resp
                      ELSE /\ localState' = Nil
                           /\ resp' = RespNil
                           /\ pc' = "done"
                /\ UNCHANGED hints
    /\ UNCHANGED <<topology, machineState, reservedCPUs, req, hintVars, fanVars, reserveVars,
                   pfState>>

\* util.GetHintsFromExtraStateFile: the hints the extra state file holds for
\* the pod, over the available NUMA nodes: one hint of the first available
\* node or of all of them
ExtraStateFileHints(availableNUMAs) ==
    IF availableNUMAs = {} THEN {}
    ELSE { [Hints |-> << [nodes |-> << SortedSeq(availableNUMAs)[1] >>, preferred |-> TRUE] >>],
           [Hints |-> << [nodes |-> SortedSeq(availableNUMAs), preferred |-> TRUE] >>] }

\* lines 137-146, the file holding hints for the pod
ExtraStateFileHit ==
    /\ pc = "extra"
    /\ \E fileHints \in ExtraStateFileHints(GetFilteredNUMASet(localState)) :
          hints' = fileHints
    /\ pc' = "prefilter"
    /\ UNCHANGED <<topology, machineState, reservedCPUs, req, hintVars, fanVars, reserveVars,
                   podEntries, localState, pfState, resp>>

\* lines 137-146, the file holding none (or failing to be read)
ExtraStateFileMiss ==
    /\ pc = "extra"
    /\ pc' = "calculate"
    /\ UNCHANGED <<topology, machineState, reservedCPUs, req, hintVars, fanVars, reserveVars,
                   handlerVars>>

\* lines 149-156
Calculate ==
    /\ pc = "calculate"
    /\ LET r == CalculateHints(req.reqInt, localState, req.ann, topology, reservedCPUs)
       IN  IF r.err
           THEN resp' = RespNil /\ pc' = "done" /\ UNCHANGED hints
           ELSE hints' = [Hints |-> r.hints] /\ pc' = "prefilter" /\ UNCHANGED resp
    /\ UNCHANGED <<topology, machineState, reservedCPUs, req, hintVars, fanVars, reserveVars,
                   podEntries, localState, pfState>>

\* lines 159-168
PreFilter ==
    /\ pc = "prefilter"
    /\ LET r == prePodAffinityFilter(topology, machineState, req)
       IN  IF r.err
           THEN resp' = RespNoPreference(TRUE) /\ pc' = "done" /\ UNCHANGED pfState
           ELSE IF r.state = Nil
           THEN resp' = RespHints(hints.Hints) /\ pc' = "done" /\ UNCHANGED pfState
           ELSE pfState' = r.state /\ pc' = "filter" /\ UNCHANGED resp
    /\ UNCHANGED <<topology, machineState, reservedCPUs, req, hintVars, fanVars, reserveVars,
                   podEntries, localState, hints>>

\* lines 169-171
Filter ==
    /\ pc = "filter"
    /\ resp' = RespHints(podAffinityFilter(pfState, hints.Hints))
    /\ pc' = "done"
    /\ UNCHANGED <<topology, machineState, reservedCPUs, req, hintVars, fanVars, reserveVars,
                   podEntries, localState, hints, pfState>>

----------------------------------------------------------------------------
(* Spec: the handler on bounded inputs *)

Prod == { <<"env", "prod">> }
Dev == { <<"env", "dev">> }

\* the pods that may be resident, each on one NUMA node: p1 carries env=prod,
\* p2 (dedicated, NUMA-binding, holding the node's first CPU) and p3 declare
\* anti-affinity to env=prod at NUMA and at socket level, p4 carries an
\* anti-affinity annotation that does not parse
Resident(pod, t, i) ==
    CASE pod = "p1" -> Entry("p1", "main", i, {}, FALSE, Prod, "none", << >>)
      [] pod = "p2" -> Entry("p2", "main", i, {i * t.cpusPerNUMA}, TRUE, Dev, "ok",
                             << Selector("numa", Prod) >>)
      [] pod = "p3" -> Entry("p3", "main", i, {}, FALSE, {}, "ok",
                             << Selector("socket", Prod) >>)
      [] pod = "p4" -> Entry("p4", "main", i, {}, FALSE, {}, "bad", << >>)

\* the allocation entry of the requesting container, when it has one: the
\* last CPU of NUMA node 0
SelfEntry(t, r) ==
    Entry("self", "main", 0, {t.cpusPerNUMA - 1}, TRUE, r.labels,
          IF ~r.parses THEN "bad" ELSE IF r.antiAffinity # Nil THEN "ok" ELSE "none",
          IF r.antiAffinity # Nil THEN r.antiAffinity.Required ELSE << >>)

\* the allocation entry of a sidecar of the requesting pod: the CPUs, labels
\* and annotations of the pod's main container
SelfSidecarEntry(t, r) == [SelfEntry(t, r) EXCEPT !.container = "sidecar"]

Request(reqInt, exclusive, containerType, quantityOK, labels, parses, affinity, antiAffinity) ==
    [reqInt |-> reqInt, ann |-> [numaBinding |-> TRUE, numaExclusive |-> exclusive],
     PodUid |-> "self",
     ContainerName |-> IF containerType = "SIDECAR" THEN "sidecar" ELSE "main",
     containerType |-> containerType, quantityOK |-> quantityOK, labels |-> labels,
     parses |-> parses, affinity |-> affinity, antiAffinity |-> antiAffinity]

\* requests of primary containers with a well-formed quantity and affinity
\* descriptor, a sidecar, a request whose quantity does not parse, and requests
\* whose affinity annotation does not parse
Requests ==
    { Request(q, x, "MAIN", TRUE, l, TRUE, a, aa) :
        q \in {1, MaxCPUsPerNUMA + 1}, x \in BOOLEAN, l \in {{}, Prod},
        a \in {Nil, [Required |-> << Selector("numa", Prod) >>],
                    [Required |-> << Selector("socket", Dev) >>]},
        aa \in {Nil, [Required |-> << Selector("numa", Prod) >>]} }
    \cup { Request(1, FALSE, "SIDECAR", TRUE, {}, TRUE, Nil, Nil),
           Request(1, FALSE, "MAIN", FALSE, {}, TRUE, Nil, Nil) }
    \cup { Request(1, x, "MAIN", TRUE, {}, FALSE, Nil, Nil) : x \in BOOLEAN }

\* where each resident pod sits: a NUMA node, or -1 for nowhere
Placements(n) ==
    { pl \in [{"p1", "p2", "p3", "p4"} -> (-1)..(n - 1)] : pl["p4"] <= 0 }

Init ==
    /\ \E n \in 1..HandlerMaxNUMA :
       \E s \in SocketCounts(n), pl \in Placements(n), self \in BOOLEAN, r \in Requests :
          LET t == Topology(n, s, MaxCPUsPerNUMA, {})
              entries == { Resident(p, t, pl[p]) : p \in { q \in DOMAIN pl : pl[q] >= 0 } }
                         \cup (IF self THEN {SelfEntry(t, r)} ELSE {})
          IN  /\ topology = t
              /\ req = r
              /\ podEntries = PodEntriesOf(entries)
              /\ machineState = GenerateMachineState(t, entries)
    /\ reservedCPUs = {}
    /\ pc = "start"
    /\ result = Nil
    /\ localState = Nil
    /\ hints = Nil
    /\ pfState = Nil
    /\ resp = Nil
    /\ FanIdle
    /\ ReserveIdle

Next ==
    \/ HandlerEntry
    \/ Regenerate
    \/ ExtraStateFileHit
    \/ ExtraStateFileMiss
    \/ Calculate
    \/ PreFilter
    \/ Filter

Spec == Init /\ [][Next]_vars

----------------------------------------------------------------------------
(* HandlersSpec: the hint handlers of every QoS class, each pc of Init the *)
(* handler the caller invokes                                              *)

\* lines 64-74: sharedCoresHintHandler
sharedCoresHintHandler ==
    /\ pc = "shared"
    /\ resp' = IF req = Nil THEN RespNil ELSE RespNoPreference(FALSE)
    /\ pc' = "done"
    /\ UNCHANGED <<topology, machineState, reservedCPUs, req, hintVars, fanVars, reserveVars,
                   podEntries, localState, hints, pfState>>

\* lines 76-79: reclaimedCoresHintHandler returns what sharedCoresHintHandler
\* returns
reclaimedCoresHintHandler ==
    /\ pc = "reclaimed"
    /\ resp' = IF req = Nil THEN RespNil ELSE RespNoPreference(FALSE)
    /\ pc' = "done"
    /\ UNCHANGED <<topology, machineState, reservedCPUs, req, hintVars, fanVars, reserveVars,
                   podEntries, localState, hints, pfState>>

\* lines 81-93 and 174-178: dedicatedCoresHintHandler, which goes on with
\* dedicatedCoresWithNUMABindingHintHandler or returns the error of
\* dedicatedCoresWithoutNUMABindingHintHandler
dedicatedCoresHintHandler ==
    /\ pc = "dedicated"
    /\ IF req = Nil
       THEN resp' = RespNil /\ pc' = "done"
       ELSE IF AnnotationsIndicateNUMABinding(req.ann)
       THEN pc' = "start" /\ UNCHANGED resp
       ELSE resp' = RespNil /\ pc' = "done"
    /\ UNCHANGED <<topology, machineState, reservedCPUs, req, hintVars, fanVars, reserveVars,
                   podEntries, localState, hints, pfState>>

\* the handlers a caller may invoke
HandlerNames == {"shared", "reclaimed", "dedicated"}

\* the requests of Requests without required affinity, the same without NUMA
\* binding, and the nil request
HandlerRequests ==
    LET bound == { r \in Requests : r.affinity = Nil }
    IN  bound
        \cup { [r EXCEPT !.ann = [numaBinding |-> FALSE, numaExclusive |-> FALSE]] :
                 r \in { x \in bound : x.reqInt = 1 /\ ~x.ann.numaExclusive } }
        \cup { Nil }

\* the records the requesting pod holds: none, that of the requesting
\* container, that of its sidecar, or both
SelfRecords(t, r) ==
    IF r = Nil THEN { {} }
    ELSE { {}, {SelfEntry(t, r)}, {SelfSidecarEntry(t, r)},
           {SelfEntry(t, r), SelfSidecarEntry(t, r)} }

HandlersInit ==
    /\ \E n \in 1..HandlerMaxNUMA :
       \E s \in SocketCounts(n), pl \in Placements(n), r \in HandlerRequests :
       \E self \in SelfRecords(Topology(n, s, MaxCPUsPerNUMA, {}), r) :
          LET t == Topology(n, s, MaxCPUsPerNUMA, {})
              entries == { Resident(p, t, pl[p]) : p \in { q \in DOMAIN pl : pl[q] >= 0 } }
                         \cup self
          IN  /\ topology = t
              /\ req = r
              /\ podEntries = PodEntriesOf(entries)
              /\ machineState = GenerateMachineState(t, entries)
    /\ reservedCPUs = {}
    /\ pc \in HandlerNames
    /\ result = Nil
    /\ localState = Nil
    /\ hints = Nil
    /\ pfState = Nil
    /\ resp = Nil
    /\ FanIdle
    /\ ReserveIdle

HandlersNext ==
    \/ sharedCoresHintHandler
    \/ reclaimedCoresHintHandler
    \/ dedicatedCoresHintHandler
    \/ HandlerEntry
    \/ Regenerate
    \/ ExtraStateFileHit
    \/ ExtraStateFileMiss
    \/ Calculate
    \/ PreFilter
    \/ Filter

HandlersSpec == HandlersInit /\ [][HandlersNext]_vars

----------------------------------------------------------------------------
(* FanOutSpec: getExistingAntiAffinityCounts, getAntiAffinityCounts and    *)
(* getAffinityCounts (lines 358-429) step by step: the caller starts one   *)
(* goroutine per NUMA index, waits for all of them, then appends the slots *)

Phases == << "existing", "anti", "affinity" >>
NextPhase(ph) ==
    CASE ph = "existing" -> "anti" [] ph = "anti" -> "affinity" [] OTHER -> "finished"

NumNUMA == Len(pfState.numaAffinityInfoList)

\* lines 368, 393, 418: what the goroutine of numaID computes
SlotValue(ph, numaID) ==
    CASE ph = "existing" -> ExistingAntiSlot(topology, pfState, numaID)
      [] ph = "anti"     -> AntiSlot(topology, pfState, numaID)
      [] OTHER           -> AffinitySlot(topology, pfState, numaID)

\* lines 365-370: the goroutine takes its index as the argument numaID and
\* writes topologyMaps[numaID]
SlotIndex_CapturedLoopVar(numaID, i) == IF i < NumNUMA THEN i ELSE 0
SlotIndex(numaID, i) == numaID

\* lines 373, 398, 423: wg.Wait() returns when the counter is zero
WaitReturns_NoJoin(counter) == TRUE
WaitReturns(counter) == counter = 0

\* Append of a slot, Nil or [m] with the count map m; ranging over the nil
\* map of a slot never written adds nothing
AppendSlot(acc, slot) == IF slot = Nil THEN acc ELSE AppendCount(acc, slot.m)

\* lines 360-362, 385-387, 410-412: the slots and the wait group of a call
EnterPhase(ph) ==
    /\ fanPhase' = ph
    /\ mainPc' = IF ph = "finished" THEN "returned" ELSE "spawn"
    /\ loopI' = 0
    /\ wg' = 0
    /\ unit' = [k \in 0..(NumNUMA - 1) |-> "none"]
    /\ topologyMaps' = [k \in 0..(NumNUMA - 1) |-> Nil]
    /\ writers' = [k \in 0..(NumNUMA - 1) |-> {}]

\* lines 363-371: wg.Add(1) and go func(numaID){...}(i)
Spawn ==
    /\ mainPc = "spawn"
    /\ loopI < NumNUMA
    /\ wg' = wg + 1
    /\ unit' = [unit EXCEPT ![loopI] = "running"]
    /\ loopI' = loopI + 1
    /\ mainPc' = IF loopI + 1 < NumNUMA THEN "spawn" ELSE "wait"
    /\ UNCHANGED <<fanPhase, topologyMaps, writers, pfState>>

\* lines 367-369: the goroutine computes its count map and stores it
UnitWrite(numaID) ==
    /\ numaID \in DOMAIN unit
    /\ unit[numaID] = "running"
    /\ topologyMaps' = [topologyMaps EXCEPT ![SlotIndex(numaID, loopI)] =
                           [m |-> SlotValue(fanPhase, numaID)]]
    /\ writers' = [writers EXCEPT ![SlotIndex(numaID, loopI)] = @ \cup {numaID}]
    /\ unit' = [unit EXCEPT ![numaID] = "written"]
    /\ UNCHANGED <<fanPhase, mainPc, loopI, wg, pfState>>

\* line 366: the deferred wg.Done()
UnitDone(numaID) ==
    /\ numaID \in DOMAIN unit
    /\ unit[numaID] = "written"
    /\ wg' = wg - 1
    /\ unit' = [unit EXCEPT ![numaID] = "done"]
    /\ UNCHANGED <<fanPhase, mainPc, loopI, topologyMaps, writers, pfState>>

\* lines 373, 398, 423
Wait ==
    /\ mainPc = "wait"
    /\ WaitReturns(wg)
    /\ mainPc' = "merge"
    /\ loopI' = 0
    /\ UNCHANGED <<fanPhase, wg, unit, topologyMaps, writers, pfState>>

\* lines 375-377, 400-402, 425-427: one Append of the loop
MergedInto(st, ph, slot) ==
    CASE ph = "existing" ->
           [st EXCEPT !.existingAntiAffinityCounts = AppendSlot(@, slot)]
      [] ph = "anti" ->
           [st EXCEPT !.antiAffinityCounts = AppendSlot(@, slot)]
      [] OTHER ->
           [st EXCEPT !.affinityCounts = AppendSlot(@, slot)]

\* an Append that is not the last of its loop
Merge ==
    /\ mainPc = "merge"
    /\ loopI + 1 < NumNUMA
    /\ pfState' = MergedInto(pfState, fanPhase, topologyMaps[loopI])
    /\ loopI' = loopI + 1
    /\ UNCHANGED <<fanPhase, mainPc, wg, unit, topologyMaps, writers>>

\* the last Append of a loop: the function returns and prePodAffinityFilter
\* calls the next one (lines 461-463) or returns (line 465)
MergeLast ==
    /\ mainPc = "merge"
    /\ loopI + 1 = NumNUMA
    /\ pfState' = MergedInto(pfState, fanPhase, topologyMaps[loopI])
    /\ EnterPhase(NextPhase(fanPhase))

FanFrame == UNCHANGED <<topology, machineState, reservedCPUs, req, pc, hintVars,
                        reserveVars, podEntries, localState, hints, resp>>

\* the state after line 460 of prePodAffinityFilter, for a request that is not
\* exclusive on a machine whose entries parse
FanInit ==
    /\ \E n \in 1..FanMaxNUMA :
       \E s \in SocketCounts(n), pl \in Placements(n), r \in Requests :
          LET t == Topology(n, s, MaxCPUsPerNUMA, {})
              entries == { Resident(p, t, pl[p]) : p \in { q \in DOMAIN pl : pl[q] >= 0 } }
              ms == GenerateMachineState(t, entries)
          IN  /\ pl["p4"] < 0
              /\ r.parses /\ ~r.ann.numaExclusive /\ r.labels # {}
              /\ r.reqInt = 1 /\ r.containerType = "MAIN" /\ r.quantityOK
              /\ topology = t
              /\ req = r
              /\ podEntries = PodEntriesOf(entries)
              /\ machineState = ms
              /\ pfState = NewPreFilterState(t, r, getNumaNodesAffinityInfo(t, ms).list)
              /\ unit = [k \in 0..(n - 1) |-> "none"]
              /\ topologyMaps = [k \in 0..(n - 1) |-> Nil]
              /\ writers = [k \in 0..(n - 1) |-> {}]
    /\ reservedCPUs = {}
    /\ pc = "prefilter"
    /\ result = Nil
    /\ localState = Nil
    /\ hints = Nil
    /\ resp = Nil
    /\ fanPhase = "existing"
    /\ mainPc = "spawn"
    /\ loopI = 0
    /\ wg = 0
    /\ ReserveIdle

FanNext ==
    \/ Spawn /\ FanFrame
    \/ \E numaID \in 0..(FanMaxNUMA - 1) : UnitWrite(numaID) /\ FanFrame
    \/ \E numaID \in 0..(FanMaxNUMA - 1) : UnitDone(numaID) /\ FanFrame
    \/ Wait /\ FanFrame
    \/ Merge /\ FanFrame
    \/ MergeLast /\ FanFrame

\* every started goroutine runs to its end and the caller is not starved
FanFairness ==
    /\ WF_vars((Spawn \/ Wait \/ Merge \/ MergeLast) /\ FanFrame)
    /\ \A numaID \in 0..(FanMaxNUMA - 1) :
          /\ WF_vars(UnitWrite(numaID) /\ FanFrame)
          /\ WF_vars(UnitDone(numaID) /\ FanFrame)

FanOutSpec == FanInit /\ [][FanNext]_vars /\ FanFairness

----------------------------------------------------------------------------
(* ReserveSpec: NUMAInterPodAffinity.Reserve / Unreserve (reserve.go)      *)

\* a pod as the plugin reads it: its QoS class and its NUMA annotations
Pods == [dedicated : BOOLEAN, numaBinding : BOOLEAN, numaExclusive : BOOLEAN]
NodeNames == 1..MaxNodes

\* schedulerUtil.IsDedicatedPod, schedulerUtil.IsNumaBinding
IsDedicatedPod(pod) == pod.dedicated
IsNumaBinding(pod) == pod.numaBinding

\* cache.ReservePodAffinity / UnreservePodAffinity: the record of the node
\* chosen for the pod is added / removed
ReservePodAffinity(c, nodeName, pod) == c \cup { <<nodeName, pod>> }
UnreservePodAffinity(c, nodeName, pod) == c \ { <<nodeName, pod>> }

\* reserve.go line 29
ShouldReserve_ExclusiveOnly(pod) ==
    IsDedicatedPod(pod) /\ IsNumaBinding(pod) /\ pod.numaExclusive
ShouldReserve(pod) == IsDedicatedPod(pod) /\ IsNumaBinding(pod)

\* reserve.go line 37
ShouldUnreserve(pod) == IsDedicatedPod(pod) /\ IsNumaBinding(pod)

ReserveFrame == UNCHANGED <<topology, machineState, reservedCPUs, req, pc, hintVars,
                            handlerVars, fanVars>>

\* reserve.go lines 28-34
Reserve(pod, nodeName) ==
    /\ cache' = IF ShouldReserve(pod) THEN ReservePodAffinity(cache, nodeName, pod)
                ELSE cache
    /\ prevCache' = cache
    /\ lastOp' = [op |-> "Reserve", pod |-> pod, node |-> nodeName, status |-> "Success"]
    /\ ReserveFrame

\* reserve.go lines 36-40
Unreserve(pod, nodeName) ==
    /\ cache' = IF ShouldUnreserve(pod) THEN UnreservePodAffinity(cache, nodeName, pod)
                ELSE cache
    /\ prevCache' = cache
    /\ lastOp' = [op |-> "Unreserve", pod |-> pod, node |-> nodeName, status |-> "none"]
    /\ ReserveFrame

ReserveInit ==
    /\ topology = Nil
    /\ machineState = Nil
    /\ reservedCPUs = {}
    /\ req = Nil
    /\ pc = "scheduler"
    /\ result = Nil
    /\ HandlerIdle
    /\ FanIdle
    /\ ReserveIdle

ReserveNext ==
    \/ \E pod \in Pods, nodeName \in NodeNames : Reserve(pod, nodeName)
    \/ \E pod \in Pods, nodeName \in NodeNames : Unreserve(pod, nodeName)

ReserveSpec == ReserveInit /\ [][ReserveNext]_vars

----------------------------------------------------------------------------
(* Properties of calculateHints (HintSpec) *)

Returned == pc = "returned"
Emitted == IF Returned /\ ~result.err THEN { result.hints[k] : k \in 1..Len(result.hints) } ELSE {}
NodesOf(h) == { h.nodes[j] : j \in 1..Len(h.nodes) }
MinNodes == (req.reqInt + topology.cpusPerNUMA - 1) \div topology.cpusPerNUMA
SocketsSpanned(h) == { SocketOf(topology, n) : n \in NodesOf(h) }

\* C1: every emitted hint's nodes together have at least reqInt available
\* CPUs, available being a node's CPUs minus its allocated CPUs minus the
\* globally reserved CPUs.
C1_HintCapacity ==
    \A h \in Emitted :
        /\ \A n \in NodesOf(h) : machineState[n] # Nil
        /\ Cardinality(UNION { (CPUsInNUMA(topology, n) \ machineState[n].allocated)
                                   \ reservedCPUs : n \in NodesOf(h) }) >= req.reqInt

\* C1 witness: a hint of two nodes was emitted whose available CPUs are
\* exactly the request, on a machine with allocated and reserved CPUs.
C1_Witness ==
    \E h \in Emitted :
        /\ Len(h.nodes) = 2
        /\ reservedCPUs # {}
        /\ \E n \in NodesOf(h) : machineState[n].allocated # {}
        /\ Cardinality(UNION { (CPUsInNUMA(topology, n) \ machineState[n].allocated)
                                   \ reservedCPUs : n \in NodesOf(h) }) = req.reqInt

\* C2: an emitted hint is preferred iff its size is the minimum node count
\* for the request, and no preferred hint is larger than another emitted hint.
C2_PreferredIffMin ==
    \A h \in Emitted :
        /\ h.preferred <=> (Len(h.nodes) = MinNodes)
        /\ h.preferred => \A g \in Emitted : Len(g.nodes) >= Len(h.nodes)

\* C2 witness: a preferred hint of two nodes beside a larger, not preferred one.
C2_Witness ==
    \E h, g \in Emitted :
        /\ h.preferred /\ Len(h.nodes) = 2
        /\ ~g.preferred /\ Len(g.nodes) > 2

\* C3: for an exclusive request no emitted hint holds a node with a
\* non-empty allocated CPU set.
C3_ExclusiveAvoidsAllocated ==
    req.ann.numaExclusive =>
        \A h \in Emitted : \A n \in NodesOf(h) :
            machineState[n] # Nil /\ machineState[n].allocated = {}

\* C3 witness: an exclusive request got hints on a machine where another node
\* has allocations.
C3_Witness ==
    /\ req.ann.numaExclusive
    /\ Emitted # {}
    /\ \E n \in DOMAIN machineState :
          machineState[n] # Nil /\ machineState[n].allocated # {}

\* C4: no emitted hint has at most NUMAs-per-socket nodes and spans more than
\* one socket.
C4_NoSmallCrossSocket ==
    \A h \in Emitted :
        ~(/\ Len(h.nodes) <= topology.numNUMA \div topology.numSockets
          /\ Cardinality(SocketsSpanned(h)) > 1)

\* C4 witness: on two sockets of two nodes each, a two-node hint within one
\* socket and a three-node hint that spans both were emitted.
C4_Witness ==
    /\ topology.numSockets = 2 /\ topology.numNUMA = 4
    /\ \E h, g \in Emitted :
          /\ Len(h.nodes) = 2 /\ Cardinality(SocketsSpanned(h)) = 1
          /\ Len(g.nodes) = 3 /\ Cardinality(SocketsSpanned(g)) = 2

\* the masks whose examination met a topology lookup failure: a node whose
\* state is missing, or a failing cross-socket check
LookupFailures ==
    { m \in { IterateBitMasks(SortedSeq(DOMAIN machineState))[k] :
                 k \in 1..Len(IterateBitMasks(SortedSeq(DOMAIN machineState))) } :
        MaskOutcome(m, req.reqInt, machineState, req.ann, topology, reservedCPUs,
                    GetNUMANodesCountToFitCPUReq(req.reqInt, topology).count,
                    NUMAsPerSocket(topology).count) \in {"nilState", "crossErr"} }

\* C7: a topology lookup failure met while examining a mask makes
\* calculateHints return an error instead of a hint list.
C7_LookupFailureIsHardFailure ==
    Returned /\ LookupFailures # {} => result.err

\* C7, the missing node state alone
C7_NilStateWitness ==
    /\ Returned /\ ~result.err /\ Len(result.hints) > 0
    /\ \E n \in DOMAIN machineState : machineState[n] = Nil

----------------------------------------------------------------------------
(* Properties of the handler (Spec) *)

Done == pc = "done"
Responded == IF Done THEN { resp.hints[k] : k \in 1..Len(resp.hints) } ELSE {}
Unfiltered == IF hints # Nil THEN { hints.Hints[k] : k \in 1..Len(hints.Hints) } ELSE {}

\* the entry declares a required anti-affinity selector that matches a label
\* of the new pod
DeclaresAntiAffinityTo(e, r) ==
    /\ e.antiAnno = "ok"
    /\ \E k \in 1..Len(e.anti) : e.anti[k].matchLabels \cap r.labels # {}

AntiAffineNodes ==
    { n \in DOMAIN machineState :
        \E e \in machineState[n].podEntries : DeclaresAntiAffinityTo(e, req) }

\* C5 as stated: whenever a pod resident on NUMA node N declares a required
\* anti-affinity selector matching a label of the new pod, no hint of the
\* response contains N, however the unfiltered hints were obtained.
C5_AntiAffineNodeNeverHinted ==
    \A h \in Responded : NodesOf(h) \cap AntiAffineNodes = {}

\* C5 as amended: the same for a request that is not NUMA-exclusive (an
\* exclusive request skips the inter-pod affinity filter).
C5_AntiAffineNodeNotHintedUnlessExclusive ==
    ~req.ann.numaExclusive =>
        \A h \in Responded : NodesOf(h) \cap AntiAffineNodes = {}

\* C5 witness: a non-exclusive request was answered with hints, an unfiltered
\* hint held a node with two resident entries of which one declares matching
\* anti-affinity, and no returned hint holds that node.
C5_Witness ==
    /\ Done /\ ~req.ann.numaExclusive /\ resp.kind = "hints" /\ Len(resp.hints) > 0
    /\ \E n \in AntiAffineNodes :
          /\ \E h \in Unfiltered : n \in NodesOf(h)
          /\ \E e \in machineState[n].podEntries : ~DeclaresAntiAffinityTo(e, req)

\* a node passes the filter: no existing anti-affinity count, no anti-affinity
\* count of the new pod and, when the new pod requires affinity, a positive
\* affinity count
RequiresAffinity == req.affinity # Nil /\ Len(req.affinity.Required) > 0
NodePasses(n) ==
    /\ pfState.existingAntiAffinityCounts[n] = 0
    /\ pfState.antiAffinityCounts[n] = 0
    /\ RequiresAffinity => pfState.affinityCounts[n] > 0

\* C6: the filtered list is the unfiltered one without the hints that have a
\* node failing the filter, in the same order, subsets and preferred flags
\* kept; it is empty when the pod requires affinity and no node has a positive
\* affinity count.
C6_FilterKeepsExactlyPassingHints ==
    Done /\ pfState # Nil =>
        /\ \A h \in Unfiltered : h \in Responded <=> \A n \in NodesOf(h) : NodePasses(n)
        /\ Responded \subseteq Unfiltered
        /\ \A i, j \in 1..Len(resp.hints) : i < j =>
              \E a, b \in 1..Len(hints.Hints) :
                  a < b /\ hints.Hints[a] = resp.hints[i] /\ hints.Hints[b] = resp.hints[j]
        /\ (RequiresAffinity /\ \A n \in DOMAIN machineState : pfState.affinityCounts[n] = 0)
              => resp.hints = << >>

\* C6 witness: a hint of several nodes was dropped for one failing node while
\* another of its nodes passes.
C6_Witness ==
    /\ Done /\ pfState # Nil
    /\ \E h \in Unfiltered \ Responded :
          /\ \E n \in NodesOf(h) : NodePasses(n)
          /\ \E n \in NodesOf(h) : ~NodePasses(n)

\* C8: for an exclusive request that got candidate hints the filter is not
\* applied: without affinity requirements the candidates are returned as they
\* are and without error, with affinity requirements the handler returns an
\* error and the no-preference hint set.
C8_ExclusiveSkipsFilter ==
    Done /\ req.ann.numaExclusive /\ hints # Nil =>
        /\ pfState = Nil
        /\ (req.parses /\ req.affinity = Nil) =>
              resp.kind = "hints" /\ resp.hints = hints.Hints /\ ~resp.err
        /\ (req.parses /\ req.affinity # Nil) =>
              resp.kind = "noPreference" /\ resp.err

\* C8 witness: an exclusive request with affinity requirements had candidate
\* hints and was answered with the error.
C8_Witness ==
    /\ Done /\ req.ann.numaExclusive /\ req.affinity # Nil
    /\ hints # Nil /\ Len(hints.Hints) > 0
    /\ resp.err

\* C8 witness of the other case: an exclusive request without affinity
\* requirements got its candidates back on a machine with resident pods.
C8_WitnessUnfiltered ==
    /\ Done /\ req.ann.numaExclusive /\ req.affinity = Nil /\ req.antiAffinity # Nil
    /\ hints # Nil /\ Len(hints.Hints) > 0 /\ DOMAIN podEntries # {}
    /\ resp.kind = "hints" /\ resp.hints = hints.Hints

----------------------------------------------------------------------------
(* Properties of the fan-out (FanOutSpec) *)

\* the key-wise sum of the per-node partial counts of a counter
RECURSIVE SumOfSlots(_, _)
SumOfSlots(ph, k) ==
    IF k = 0 THEN ZeroCount(topology)
    ELSE [n \in NUMANodes(topology) |->
             SumOfSlots(ph, k - 1)[n] + SlotValue(ph, k - 1)[n]]

PhaseDone(ph) ==
    \/ fanPhase = "finished"
    \/ ph = "existing" /\ fanPhase \in {"anti", "affinity"}
    \/ ph = "anti" /\ fanPhase = "affinity"

\* each unit writes the slot of its own index only
DisjointWrites == \A k \in DOMAIN writers : writers[k] \subseteq {k}

\* the merge starts after every unit has completed
JoinBeforeMerge ==
    mainPc = "merge" => wg = 0 /\ \A k \in DOMAIN unit : unit[k] = "done"

\* a finished counter holds the key-wise sum of the per-node partial counts
AggregateIsSum ==
    /\ PhaseDone("existing") =>
          pfState.existingAntiAffinityCounts = SumOfSlots("existing", NumNUMA)
    /\ PhaseDone("anti") =>
          pfState.antiAffinityCounts = SumOfSlots("anti", NumNUMA)
    /\ PhaseDone("affinity") =>
          pfState.affinityCounts = SumOfSlots("affinity", NumNUMA)

\* the three counters computed step by step are the ones the handler's
\* prePodAffinityFilter step uses
SameAsPreFilter ==
    fanPhase = "finished" =>
        pfState = prePodAffinityFilter(topology, machineState, req).state

FanOutSafe == DisjointWrites /\ JoinBeforeMerge /\ AggregateIsSum /\ SameAsPreFilter

\* C10: in each of the three counters and under every interleaving, a unit
\* writes only the slot of its own index, the merge reads no slot before all
\* units have completed, the three joins eventually complete, and each
\* aggregate is the key-wise sum of the per-node partial counts.
C10_FanOutJoinsAndSums == []FanOutSafe /\ <>(fanPhase = "finished")

\* C10 witness: all three counters are finished and a socket-zoned match was
\* counted on a node by the unit of another node.
C10_Witness ==
    /\ fanPhase = "finished"
    /\ NumNUMA > 1
    /\ \E k \in 0..(NumNUMA - 1), n \in NUMANodes(topology) :
          k # n /\ SlotValue("existing", k)[n] > 0
    /\ \E n \in NUMANodes(topology) : pfState.affinityCounts[n] > 0

\* C10 witness of an interleaving: the unit of a later index has completed
\* while the unit of index 0 has not written yet.
C10_WitnessInterleaving ==
    /\ fanPhase = "anti"
    /\ \E k \in DOMAIN unit : k > 0 /\ unit[k] = "done" /\ unit[0] = "running"

----------------------------------------------------------------------------
(* Properties of Reserve / Unreserve (ReserveSpec) *)

LastRecord == << lastOp.node, lastOp.pod >>

\* C9 as stated: Reserve records the node for a (dedicated-cores) pod exactly
\* when the pod is NUMA-binding and NUMA-exclusive.
C9_ReserveRecordsExactlyExclusivePods ==
    (/\ lastOp # Nil /\ lastOp.op = "Reserve" /\ LastRecord \notin prevCache
     /\ lastOp.pod.dedicated) =>
        (LastRecord \in cache <=> (lastOp.pod.numaBinding /\ lastOp.pod.numaExclusive))

\* C9 as amended: Reserve records the node for the pod exactly when the pod
\* is a dedicated-cores pod with NUMA binding, exclusive or not, and returns
\* success; Unreserve removes the record under the same condition, so after
\* an Unreserve no record of that pod on that node is left; no other record
\* of the cache changes.
C9_ReserveRecordsDedicatedNUMABindingPods ==
    lastOp # Nil =>
        /\ lastOp.op = "Reserve" =>
              /\ lastOp.status = "Success"
              /\ LastRecord \in cache <=>
                    \/ LastRecord \in prevCache
                    \/ lastOp.pod.dedicated /\ lastOp.pod.numaBinding
        /\ lastOp.op = "Unreserve" => LastRecord \notin cache
        /\ \A rec \in (cache \cup prevCache) \ {LastRecord} :
              rec \in cache <=> rec \in prevCache

\* C9 witness: the record of a dedicated NUMA-binding pod that is not
\* exclusive was made by a Reserve and has just been released by an Unreserve,
\* with the record of another pod still in the cache.
C9_Witness ==
    /\ lastOp # Nil /\ lastOp.op = "Unreserve"
    /\ lastOp.pod.dedicated /\ lastOp.pod.numaBinding /\ ~lastOp.pod.numaExclusive
    /\ LastRecord \in prevCache
    /\ LastRecord \notin cache
    /\ cache # {}

----------------------------------------------------------------------------
(* Properties of the handlers' effects on the state they read (HandlersSpec) *)

\* the call stands at line 114 with an allocation record of the requesting
\* container from which no hints can be regenerated
StaleRecord ==
    /\ pc = "regenerate"
    /\ req.PodUid \in DOMAIN podEntries
    /\ req.ContainerName \in DOMAIN podEntries[req.PodUid]
    /\ RegenerateHints(podEntries[req.PodUid][req.ContainerName], req.reqInt) = Nil

\* the next pod-entry mapping is the current one without the record of the
\* requesting container, and without the pod's entry if that record was its
\* last
RecordDropped ==
    /\ DOMAIN podEntries' =
          { p \in DOMAIN podEntries :
              p # req.PodUid \/ DOMAIN podEntries[p] # {req.ContainerName} }
    /\ \A p \in DOMAIN podEntries' :
          /\ DOMAIN podEntries'[p] =
                IF p = req.PodUid THEN DOMAIN podEntries[p] \ {req.ContainerName}
                ELSE DOMAIN podEntries[p]
          /\ \A c \in DOMAIN podEntries'[p] : podEntries'[p][c] = podEntries[p][c]

\* the next local machine state is the one made of the next pod entries, or
\* making it failed and the call has returned the error
RecomputedOnce ==
    \/ /\ pc' = "done"
       /\ resp'.kind = "nil" /\ resp'.err
    \/ /\ pc' = "extra"
       /\ localState' = GenerateMachineState(topology, AllEntries(podEntries'))

\* the handler's local machine state is set once, to the state's snapshot
SnapshotTaken ==
    pc = "start" /\ pc' = "regenerate" /\ localState' = machineState

\* one step of a handler as C11 allows it
FrameStep ==
    /\ UNCHANGED <<topology, machineState, reservedCPUs, req>>
    /\ IF StaleRecord
       THEN RecordDropped /\ RecomputedOnce
       ELSE /\ podEntries' = podEntries
            /\ SnapshotTaken \/ localState' = localState
    /\ pc' = "regenerate" => pc = "start"
    /\ pc' = "start" => pc = "dedicated"

\* C11: on every path of the hint handlers (shared, reclaimed, dedicated
\* without NUMA binding, sidecar, dedicated NUMA-binding primary container)
\* the pod-entry mapping and the machine state stay as they are, except where
\* an allocation record of the container exists and regenerating hints from it
\* fails: that step drops exactly that record (and the pod's entry when it
\* was its last record) and recomputes the machine state from the remaining
\* entries, and the regeneration step is never entered a second time.
C11_OnlyStaleRecordIsDropped == [][FrameStep]_vars

\* C11 witness: a call has returned hints after dropping the stale record of
\* the requesting container; the pod keeps its sidecar's record, a resident
\* pod keeps its own, and the recomputed machine state differs from the
\* state's snapshot, which is as it was.
C11_Witness ==
    /\ pc = "done" /\ resp.kind = "hints"
    /\ req.PodUid \in DOMAIN podEntries
    /\ DOMAIN podEntries[req.PodUid] = {"sidecar"}
    /\ DOMAIN podEntries # {req.PodUid}
    /\ \E e \in machineState[0].podEntries : e.pod = req.PodUid /\ e.container = "main"
    /\ localState = GenerateMachineState(topology, AllEntries(podEntries))
    /\ localState # machineState

\* C11 witness of the other case: the dropped record was the pod's last and
\* the pod's entry is gone.
C11_WitnessPodEntryGone ==
    /\ pc = "done" /\ resp.kind = "hints"
    /\ req.PodUid \notin DOMAIN podEntries
    /\ \E e \in machineState[0].podEntries : e.pod = req.PodUid
    /\ localState # machineState

====
